---- MODULE Spec2Model ----
(***************************************************************************)
(* Model of the log parsing engine of klippy_log_analyzer.py:              *)
(* LogParser.run, LogParser.parse_klippy_log and                           *)
(* LogParser.extract_all_metrics.                                          *)
(*                                                                         *)
(* A log line is a sequence of space separated tokens; the regular         *)
(* expressions of the source are modelled as token patterns with the same  *)
(* search-anywhere and lazy-gap (.*?) semantics.  Numbers are exact        *)
(* rationals <<n, d>>; binary floating-point rounding is not modelled.     *)
(***************************************************************************)
EXTENDS Integers, Sequences, FiniteSets, TLC

\* ------------------------------------------------------------------------
\* Bounds of the model
\* ------------------------------------------------------------------------
MaxLines == 2       \* longest file of the single-parse specification
MaxLinesTwo == 1    \* longest file of the two-parse specification
MaxKeys == 5        \* the user picks among the first MaxKeys entries of the metric list

\* ------------------------------------------------------------------------
\* Numbers.  A value is a pair <<n, d>>: the rational n/d in lowest terms
\* when d > 0; d = 0 marks the two non-finite outcomes of Python arithmetic.
\* ------------------------------------------------------------------------
\* the one element of a singleton set; "The({e(x) : x \in {v}})" is e(v) with
\* v computed once
The(S) == CHOOSE x \in S : TRUE

RECURSIVE GCD(_, _)
GCD(a, b) == IF b = 0 THEN a ELSE The({GCD(b, r) : r \in {a % b}})

Rat(n, d) == LET g == GCD(n, d) IN IF g = 0 THEN <<0, 1>> ELSE <<n \div g, d \div g>>

Zero == <<0, 1>>      \* the sentinel 0.0
Inf == <<1, 0>>       \* float('inf'): float() of a digit string beyond the double range
BigInt == <<2, 0>>    \* a Python int too large to convert to a float

IsFinite(v) == v[2] # 0

RMul(v, k) == IF IsFinite(v) THEN Rat(v[1] * k, v[2]) ELSE v
RDiv(v, k) == IF IsFinite(v) THEN Rat(v[1], v[2] * k) ELSE v
RAdd(v, w) == IF IsFinite(v) /\ IsFinite(w) THEN Rat(v[1] * w[2] + w[1] * v[2], v[2] * w[2])
              ELSE IF IsFinite(v) THEN w ELSE v

\* ------------------------------------------------------------------------
\* Text.  A numeric literal is the text of a number: form "dec" is
\* digits.digits, form "int" is digits only, form "word" is no number.
\* size "wide" is a digit string whose value exceeds the double range,
\* size "huge" one longer than the int() conversion limit as well.
\* ------------------------------------------------------------------------
DecLit(n, d) == [form |-> "dec", n |-> n, d |-> d, size |-> "normal"]
IntLit(n) == [form |-> "int", n |-> n, d |-> 1, size |-> "normal"]
WideInt == [form |-> "int", n |-> 0, d |-> 1, size |-> "wide"]
HugeInt == [form |-> "int", n |-> 0, d |-> 1, size |-> "huge"]
WordLit == [form |-> "word", n |-> 0, d |-> 1, size |-> "normal"]

\* the digits before the decimal point of a literal, as an "int" literal
IntPart(lit) == [form |-> "int", n |-> lit.n \div lit.d, d |-> 1, size |-> lit.size]

StatsTok == [t |-> "stats", k |-> "Stats", v |-> WordLit]    \* Stats
Ts(lit) == [t |-> "ts", k |-> "", v |-> lit]                 \* <lit>:
Grp(name) == [t |-> "grp", k |-> name, v |-> WordLit]        \* <name>:
KV(key, lit) == [t |-> "kv", k |-> key, v |-> lit]           \* <key>=<lit>
Word(w) == [t |-> "word", k |-> w, v |-> WordLit]            \* any other text

\* float(text) on a captured digit string: never raises, overflows to inf
PyFloat(lit) == IF lit.size = "normal" THEN Rat(lit.n, lit.d) ELSE Inf

\* int(text) on a captured digit string: raises ValueError beyond the digit limit
PyIntRaises(lit) == lit.size = "huge"
PyInt(lit) == IF lit.size = "normal" THEN <<lit.n, 1>> ELSE BigInt

\* int / int true division: raises OverflowError when the int has no float
TrueDivRaises(v) == v = BigInt

\* ------------------------------------------------------------------------
\* Token patterns (the regular expressions of the source)
\* ------------------------------------------------------------------------
PGrp(name) == [p |-> "grp", k |-> name, cap |-> "none", tail |-> FALSE]
PKV(key, cap) == [p |-> "kv", k |-> key, cap |-> cap, tail |-> FALSE]     \* followed by a space
PKVEnd(key, cap) == [p |-> "kv", k |-> key, cap |-> cap, tail |-> TRUE]   \* followed by .*? or by the end
PGap == [p |-> "gap", k |-> "", cap |-> "none", tail |-> FALSE]              \* .*?
PStats == [p |-> "stats", k |-> "Stats", cap |-> "none", tail |-> FALSE]     \* Stats
PTs == [p |-> "ts", k |-> "", cap |-> "dec", tail |-> FALSE]                 \* (\d+\.\d+):

\* does one token satisfy one pattern item
TokMatch(item, tok) ==
    CASE item.p = "grp" -> tok.t = "grp" /\ tok.k = item.k
      [] item.p = "stats" -> tok.t = "stats"
      [] item.p = "ts" -> /\ tok.t = "ts"
                          /\ IF item.cap = "dec" THEN tok.v.form = "dec"
                                                 ELSE tok.v.form \in {"int", "dec"}
      [] item.p = "kv" ->
            /\ tok.t = "kv"
            /\ tok.k = item.k
            /\ CASE item.cap = "dec" -> tok.v.form = "dec"
                 [] item.cap = "int" -> IF item.tail THEN tok.v.form \in {"int", "dec"}
                                                     ELSE tok.v.form = "int"
                 [] item.cap = "num" -> tok.v.form \in {"int", "dec"}
                 [] OTHER -> FALSE
      [] OTHER -> FALSE

\* the text a capture group takes from a token
Capture(item, tok) ==
    IF item.cap = "int" /\ tok.v.form = "dec" THEN IntPart(tok.v) ELSE tok.v

NoMatch == [ok |-> FALSE, caps |-> <<>>]

\* the items pat[pi..RunEnd-1] have no gap between them
RunEnd(pat, pi) ==
    CHOOSE e \in pi..(Len(pat) + 1) :
        /\ e = Len(pat) + 1 \/ pat[e].p = "gap"
        /\ \A j \in pi..(e - 1) : pat[j].p # "gap"

\* n items from pat[pi] match the n tokens from toks[ti]
RunMatches(pat, pi, n, toks, ti) ==
    /\ ti + n - 1 <= Len(toks)
    /\ \A k \in 0..(n - 1) : TokMatch(pat[pi + k], toks[ti + k])

\* what the capture groups among these items take, in order
RunCaps(pat, pi, n, toks, ti) ==
    The({ [i \in 1..Len(ks) |-> Capture(pat[pi + ks[i]], toks[ti + ks[i]])]
          : ks \in {SelectSeq([k \in 1..n |-> k - 1], LAMBDA k : pat[pi + k].cap # "none")} })

\* match pat[pi..] against toks[ti..]; a gap is lazy: it takes the fewest tokens
RECURSIVE MatchAt(_, _, _, _)
RECURSIVE GapFrom(_, _, _, _)
MatchAt(pat, pi, toks, ti) ==
    IF pi > Len(pat) THEN [ok |-> TRUE, caps |-> <<>>]
    ELSE IF pat[pi].p = "gap" THEN GapFrom(pat, pi, toks, ti)
    ELSE The({ IF ~RunMatches(pat, pi, e - pi, toks, ti) THEN NoMatch
               ELSE The({ IF ~r.ok THEN NoMatch
                          ELSE [ok |-> TRUE,
                                caps |-> RunCaps(pat, pi, e - pi, toks, ti) \o r.caps]
                          : r \in {MatchAt(pat, e, toks, ti + e - pi)} })
               : e \in {RunEnd(pat, pi)} })

\* the first of the positions from..to where rs matches, or no match
First(rs, from, to) ==
    IF \E j \in from..to : rs[j].ok
    THEN rs[CHOOSE j \in from..to : rs[j].ok /\ \A i \in from..(j - 1) : ~rs[i].ok]
    ELSE NoMatch

GapFrom(pat, pi, toks, tj) ==
    The({ First(rs, tj, Len(toks) + 1)
          : rs \in {[j \in tj..(Len(toks) + 1) |-> MatchAt(pat, pi + 1, toks, j)]} })

\* re.search: the leftmost position where the pattern matches
SearchFrom(pat, toks, ti) ==
    The({ First(rs, ti, Len(toks))
          : rs \in {[j \in ti..Len(toks) |-> MatchAt(pat, 1, toks, j)]} })

Search(pat, toks) == SearchFrom(pat, toks, 1)

\* ------------------------------------------------------------------------
\* The table under construction
\* ------------------------------------------------------------------------
AllMetrics ==
    << "mcu_load", "bandwidth", "host_buffer", "awake_time",
       "mcu_bytes_write", "mcu_bytes_read", "mcu_bytes_retransmit",
       "mcu_send_seq", "mcu_receive_seq", "mcu_srtt", "mcu_rttvar", "mcu_rto",
       "toolhead0_load", "toolhead0_bandwidth", "toolhead0_awake",
       "toolhead0_bytes_write", "toolhead0_bytes_read", "toolhead0_freq",
       "toolhead1_load", "toolhead1_bandwidth", "toolhead1_awake",
       "toolhead1_bytes_write", "toolhead1_bytes_read", "toolhead1_freq",
       "heater_bed_target", "heater_bed_temp", "heater_bed_pwm",
       "extruder_target", "extruder_temp", "extruder_pwm",
       "extruder1_target", "extruder1_temp", "extruder1_pwm",
       "sysload", "cputime", "memavail", "print_time", "print_stall" >>

Keys == {AllMetrics[i] : i \in 1..Len(AllMetrics)}

\* metrics_data after "for metric in all_metrics: metrics_data[metric] = []"
EmptyMetrics == [k \in Keys |-> <<>>]

\* metrics_data[key].append(v) for every key of the function vals
AppendVals(md, vals) ==
    [k \in DOMAIN md |-> IF k \in DOMAIN vals THEN Append(md[k], vals[k]) ELSE md[k]]

\* "for metric in [...]: metrics_data[metric].append(0.0)"
AppendZeros(md, keys) ==
    [k \in DOMAIN md |-> IF k \in keys THEN Append(md[k], Zero) ELSE md[k]]

Ok(md) == [md |-> md, err |-> ""]
Raise(md, e) == [md |-> md, err |-> e]

\* ------------------------------------------------------------------------
\* extract_all_metrics
\* ------------------------------------------------------------------------
\* the scale factors of the unit conversions
AwakeScale == 100          \* awake * 100
\* a variant that scales the load like the awake time
LoadScaleBad == AwakeScale
LoadScale == 100000        \* task_avg * 100000
BytesPerKB == 1024         \* (bytes_write + bytes_read) / 1024
MsPerSecond == 1000        \* srtt, rttvar, rto * 1000
HzPerMHz == 1000000        \* freq / 1000000
PwmScale == 100            \* pwm * 100
KBPerMB == 1024            \* memavail / 1024

McuKeys == {"mcu_load", "bandwidth", "awake_time", "mcu_bytes_write", "mcu_bytes_read",
            "mcu_bytes_retransmit", "mcu_send_seq", "mcu_receive_seq",
            "mcu_srtt", "mcu_rttvar", "mcu_rto"}

McuPattern ==
    << PGrp("mcu"), PKV("mcu_awake", "dec"), PKV("mcu_task_avg", "dec"),
       PKV("mcu_task_stddev", "dec"), PKV("bytes_write", "int"), PKV("bytes_read", "int"),
       PKVEnd("bytes_retransmit", "int"), PGap,
       PKV("send_seq", "int"), PKVEnd("receive_seq", "int"), PGap,
       PKV("srtt", "dec"), PKV("rttvar", "dec"), PKVEnd("rto", "dec") >>

McuValues(c) ==
    LET awake == PyFloat(c[1])
        task_avg == PyFloat(c[2])
        bytes_write == PyInt(c[4])
        bytes_read == PyInt(c[5])
        bytes_retransmit == PyInt(c[6])
        send_seq == PyInt(c[7])
        receive_seq == PyInt(c[8])
        srtt == PyFloat(c[9])
        rttvar == PyFloat(c[10])
        rto == PyFloat(c[11])
    IN     "mcu_load" :> RMul(task_avg, LoadScale)
        @@ "bandwidth" :> RDiv(RAdd(bytes_write, bytes_read), BytesPerKB)
        @@ "awake_time" :> RMul(awake, AwakeScale)
        @@ "mcu_bytes_write" :> bytes_write
        @@ "mcu_bytes_read" :> bytes_read
        @@ "mcu_bytes_retransmit" :> bytes_retransmit
        @@ "mcu_send_seq" :> send_seq
        @@ "mcu_receive_seq" :> receive_seq
        @@ "mcu_srtt" :> RMul(srtt, MsPerSecond)
        @@ "mcu_rttvar" :> RMul(rttvar, MsPerSecond)
        @@ "mcu_rto" :> RMul(rto, MsPerSecond)

\* the appends made before key raises: the keys up to it, in statement order
Before(vals, order, key) ==
    LET n == CHOOSE i \in 1..Len(order) : order[i] = key
    IN [k \in {order[i] : i \in 1..(n - 1)} |-> vals[k]]

McuOrder == << "mcu_load", "bandwidth", "awake_time", "mcu_bytes_write", "mcu_bytes_read",
               "mcu_bytes_retransmit", "mcu_send_seq", "mcu_receive_seq",
               "mcu_srtt", "mcu_rttvar", "mcu_rto" >>

ExtractMcu(line, md) ==
    The({ IF ~m.ok THEN Ok(AppendZeros(md, McuKeys))
          ELSE IF \E i \in 4..8 : PyIntRaises(m.caps[i]) THEN Raise(md, "ValueError")
          ELSE IF TrueDivRaises(RAdd(PyInt(m.caps[4]), PyInt(m.caps[5])))
               THEN Raise(AppendVals(md, Before(McuValues(m.caps), McuOrder, "bandwidth")),
                          "OverflowError")
          ELSE Ok(AppendVals(md, McuValues(m.caps)))
          : m \in {Search(McuPattern, line)} })

ToolheadName(num) == IF num = 0 THEN "toolhead0" ELSE "toolhead1"

\* the f-string keys f'toolhead{toolhead_num}_...'
ToolheadKey(num) ==
    IF num = 0
    THEN [load |-> "toolhead0_load", bandwidth |-> "toolhead0_bandwidth",
          awake |-> "toolhead0_awake", bytes_write |-> "toolhead0_bytes_write",
          bytes_read |-> "toolhead0_bytes_read", freq |-> "toolhead0_freq"]
    ELSE [load |-> "toolhead1_load", bandwidth |-> "toolhead1_bandwidth",
          awake |-> "toolhead1_awake", bytes_write |-> "toolhead1_bytes_write",
          bytes_read |-> "toolhead1_bytes_read", freq |-> "toolhead1_freq"]

ToolheadKeys(num) == {ToolheadKey(num)[f] : f \in DOMAIN ToolheadKey(num)}

ToolheadPattern(num) ==
    << PGrp(ToolheadName(num)), PKV("mcu_awake", "dec"), PKVEnd("mcu_task_avg", "dec"), PGap,
       PKV("bytes_write", "int"), PKVEnd("bytes_read", "int"), PGap,
       PKVEnd("freq", "int") >>

ToolheadValues(num, c) ==
    LET key == ToolheadKey(num)
        awake == PyFloat(c[1])
        task_avg == PyFloat(c[2])
        bytes_write == PyInt(c[3])
        bytes_read == PyInt(c[4])
        freq == PyInt(c[5])
    IN     key.load :> RMul(task_avg, LoadScale)
        @@ key.bandwidth :> RDiv(RAdd(bytes_write, bytes_read), BytesPerKB)
        @@ key.awake :> RMul(awake, AwakeScale)
        @@ key.bytes_write :> bytes_write
        @@ key.bytes_read :> bytes_read
        @@ key.freq :> RDiv(freq, HzPerMHz)

ToolheadOrder(num) ==
    << ToolheadKey(num).load, ToolheadKey(num).bandwidth, ToolheadKey(num).awake,
       ToolheadKey(num).bytes_write, ToolheadKey(num).bytes_read, ToolheadKey(num).freq >>

ExtractToolhead(num, line, md) ==
    The({ IF ~m.ok THEN Ok(AppendZeros(md, ToolheadKeys(num)))
          ELSE IF \E i \in 3..5 : PyIntRaises(m.caps[i]) THEN Raise(md, "ValueError")
          ELSE IF TrueDivRaises(RAdd(PyInt(m.caps[3]), PyInt(m.caps[4])))
               THEN Raise(AppendVals(md, Before(ToolheadValues(num, m.caps), ToolheadOrder(num),
                                                ToolheadKey(num).bandwidth)),
                          "OverflowError")
          ELSE IF TrueDivRaises(PyInt(m.caps[5]))
               THEN Raise(AppendVals(md, Before(ToolheadValues(num, m.caps), ToolheadOrder(num),
                                                ToolheadKey(num).freq)),
                          "OverflowError")
          ELSE Ok(AppendVals(md, ToolheadValues(num, m.caps)))
          : m \in {Search(ToolheadPattern(num), line)} })

\* the keys <name>_target, <name>_temp, <name>_pwm of a heater
HeaterKey(name) ==
    CASE name = "heater_bed" ->
            [target |-> "heater_bed_target", temp |-> "heater_bed_temp", pwm |-> "heater_bed_pwm"]
      [] name = "extruder" ->
            [target |-> "extruder_target", temp |-> "extruder_temp", pwm |-> "extruder_pwm"]
      [] name = "extruder1" ->
            [target |-> "extruder1_target", temp |-> "extruder1_temp", pwm |-> "extruder1_pwm"]

HeaterKeys(name) == {HeaterKey(name)[f] : f \in DOMAIN HeaterKey(name)}

HeaterPattern(name) ==
    << PGrp(name), PKV("target", "num"), PKV("temp", "dec"), PKVEnd("pwm", "dec") >>

ExtractHeater(name, line, md) ==
    The({ IF m.ok
          THEN Ok(AppendVals(md, HeaterKey(name).target :> PyFloat(m.caps[1])
                              @@ HeaterKey(name).temp :> PyFloat(m.caps[2])
                              @@ HeaterKey(name).pwm :> RMul(PyFloat(m.caps[3]), PwmScale)))
          ELSE Ok(AppendZeros(md, HeaterKeys(name)))
          : m \in {Search(HeaterPattern(name), line)} })

ExtractHeaterBed(line, md) == ExtractHeater("heater_bed", line, md)

ExtractExtruder(extruder_name, line, md) == ExtractHeater(extruder_name, line, md)

\* the system_metrics dictionary: key -> pattern
SystemMetrics == <<"sysload", "cputime", "memavail", "print_time", "print_stall">>

SystemPattern(metric) ==
    CASE metric = "sysload" -> <<PKVEnd("sysload", "dec")>>
      [] metric = "cputime" -> <<PKVEnd("cputime", "dec")>>
      [] metric = "memavail" -> <<PKVEnd("memavail", "int")>>
      [] metric = "print_time" -> <<PKVEnd("print_time", "dec")>>
      [] metric = "print_stall" -> <<PKVEnd("print_stall", "int")>>

\* a variant that repeats the previous value when the pattern does not match
ExtractSystemMetricCarry(metric, line, md) ==
    The({ IF m.ok
          THEN Ok(AppendVals(md, metric :> (IF metric = "memavail"
                                            THEN RDiv(PyFloat(m.caps[1]), KBPerMB)
                                            ELSE PyFloat(m.caps[1]))))
          ELSE Ok(AppendVals(md, metric :> (IF md[metric] = <<>> THEN Zero
                                            ELSE md[metric][Len(md[metric])])))
          : m \in {Search(SystemPattern(metric), line)} })

ExtractSystemMetric(metric, line, md) ==
    The({ IF m.ok
          THEN Ok(AppendVals(md, metric :> (IF metric = "memavail"
                                            THEN RDiv(PyFloat(m.caps[1]), KBPerMB)
                                            ELSE PyFloat(m.caps[1]))))
          ELSE Ok(AppendZeros(md, {metric}))
          : m \in {Search(SystemPattern(metric), line)} })

BufferPattern == <<PKVEnd("buffer_time", "dec")>>

\* a variant without the else branch
ExtractBufferNoSentinel(line, md) ==
    The({ IF m.ok THEN Ok(AppendVals(md, "host_buffer" :> PyFloat(m.caps[1])))
          ELSE Ok(md)
          : m \in {Search(BufferPattern, line)} })

ExtractBuffer(line, md) ==
    The({ IF m.ok THEN Ok(AppendVals(md, "host_buffer" :> PyFloat(m.caps[1])))
          ELSE Ok(AppendZeros(md, {"host_buffer"}))
          : m \in {Search(BufferPattern, line)} })

\* the statements of extract_all_metrics, in order
NStatements == 12
Statement(i, line, md) ==
    CASE i = 1 -> ExtractMcu(line, md)
      [] i = 2 -> ExtractToolhead(0, line, md)
      [] i = 3 -> ExtractToolhead(1, line, md)
      [] i = 4 -> ExtractHeaterBed(line, md)
      [] i = 5 -> ExtractExtruder("extruder", line, md)
      [] i = 6 -> ExtractExtruder("extruder1", line, md)
      [] i = 7 -> ExtractSystemMetric(SystemMetrics[1], line, md)
      [] i = 8 -> ExtractSystemMetric(SystemMetrics[2], line, md)
      [] i = 9 -> ExtractSystemMetric(SystemMetrics[3], line, md)
      [] i = 10 -> ExtractSystemMetric(SystemMetrics[4], line, md)
      [] i = 11 -> ExtractSystemMetric(SystemMetrics[5], line, md)
      [] i = 12 -> ExtractBuffer(line, md)

\* statements i.. run one after the other; a raise skips the rest
RECURSIVE RunFrom(_, _, _)
RunFrom(i, line, md) ==
    IF i > NStatements THEN Ok(md)
    ELSE The({ IF st.err # "" THEN st ELSE RunFrom(i + 1, line, st.md)
               : st \in {Statement(i, line, md)} })

extract_all_metrics(line, md) == RunFrom(1, line, md)

\* ------------------------------------------------------------------------
\* parse_klippy_log: the line classifier and the closing step
\* ------------------------------------------------------------------------
\* "not line.strip()": the line holds no token
IsBlank(line) == Len(line) = 0

\* line.startswith('Stats ')
StartsWithStats(line) == Len(line) >= 2 /\ line[1].t = "stats"

\* re.search(r'Stats (\d+\.\d+):', line)
TimestampPattern == <<PStats, PTs>>
\* a variant whose pattern takes a timestamp without a fraction as well: Stats (\d+(?:\.\d+)?):
TimestampMatchLoose(line) ==
    Search(<<PStats, [p |-> "ts", k |-> "", cap |-> "num", tail |-> FALSE]>>, line)

TimestampMatch(line) == Search(TimestampPattern, line)

\* a table as returned: the 'timestamps' entry and one entry for each metric
Table(ts, series) == [has |-> TRUE, timestamps |-> ts, series |-> series]
NoTable == [has |-> FALSE, timestamps |-> <<>>, series |-> EmptyMetrics]

\* "while len(metrics_data[metric]) < len(timestamps): append(0.0)"
Pad(s, n) == IF Len(s) < n THEN s \o [i \in 1..(n - Len(s)) |-> Zero] ELSE s

\* a variant that slices one element short: [:len(timestamps) - 1]
ClosingStepShort(ts, md) ==
    IF Len(ts) > 0
    THEN Table(ts, [k \in Keys |-> SubSeq(Pad(md[k], Len(ts)), 1, Len(ts) - 1)])
    ELSE Table(ts, [k \in Keys |-> <<>>])

\* the lines after the with block: build the result dictionary
ClosingStep(ts, md) ==
    IF Len(ts) > 0
    THEN Table(ts, [k \in Keys |-> SubSeq(Pad(md[k], Len(ts)), 1, Len(ts))])
    ELSE Table(ts, [k \in Keys |-> <<>>])

\* ------------------------------------------------------------------------
\* Log lines and files the model reads
\* ------------------------------------------------------------------------
McuGroup(awake, task_avg, bytes_write, bytes_read) ==
    << Grp("mcu"), KV("mcu_awake", awake), KV("mcu_task_avg", task_avg),
       KV("mcu_task_stddev", DecLit(1, 10000)), KV("bytes_write", bytes_write),
       KV("bytes_read", bytes_read), KV("bytes_retransmit", IntLit(0)),
       KV("send_seq", IntLit(1)), KV("receive_seq", IntLit(1)),
       KV("srtt", DecLit(1, 100)), KV("rttvar", DecLit(2, 1000)), KV("rto", DecLit(5, 100)) >>

\* a toolhead group as klippy writes it
ToolheadGroup(num, awake, task_avg, bytes_write, bytes_read, freq) ==
    << Grp(ToolheadName(num)), KV("mcu_awake", awake), KV("mcu_task_avg", task_avg),
       KV("mcu_task_stddev", DecLit(1, 100000)), KV("bytes_write", bytes_write),
       KV("bytes_read", bytes_read), KV("bytes_retransmit", IntLit(0)), KV("freq", freq) >>

\* a toolhead group that reports no byte counts and no freq
ToolheadShort(num, awake, task_avg) ==
    << Grp(ToolheadName(num)), KV("mcu_awake", awake), KV("mcu_task_avg", task_avg),
       KV("mcu_task_stddev", DecLit(1, 100000)) >>

\* a toolhead group that reports byte counts but no freq
ToolheadNoFreq(num, awake, task_avg, bytes_write, bytes_read) ==
    << Grp(ToolheadName(num)), KV("mcu_awake", awake), KV("mcu_task_avg", task_avg),
       KV("mcu_task_stddev", DecLit(1, 100000)), KV("bytes_write", bytes_write),
       KV("bytes_read", bytes_read), KV("bytes_retransmit", IntLit(0)) >>

HeaterGroup(name, target, temp, pwm) ==
    << Grp(name), KV("target", target), KV("temp", temp), KV("pwm", pwm) >>

StatsPrefix(ts) == <<StatsTok, Ts(ts)>>

LBlank == <<>>
LOther == <<Word("Starting"), Word("Klippy...")>>
\* Stats abc:
LBadTs == <<StatsTok, Ts(WordLit)>>
\* Stats 10: sysload=0.40
LIntTs == StatsPrefix(IntLit(10)) \o <<KV("sysload", DecLit(40, 100))>>
\* Stats x Stats 1.5: sysload=0.40
LEmbedded == <<StatsTok, Word("x")>> \o StatsPrefix(DecLit(15, 10)) \o <<KV("sysload", DecLit(40, 100))>>
\* Stats 12.0:
LTsOnly == StatsPrefix(DecLit(120, 10))
\* the main-controller scenario at Stats 10.5
LMcu == StatsPrefix(DecLit(105, 10))
        \o McuGroup(DecLit(5, 100), DecLit(2, 10000), IntLit(100), IntLit(50))
\* Stats 11.0: sysload=0.40 memavail=2048
LSys == StatsPrefix(DecLit(110, 10)) \o <<KV("sysload", DecLit(40, 100)), KV("memavail", IntLit(2048))>>
\* both toolheads complete
LTwoToolheads ==
    StatsPrefix(DecLit(130, 10))
    \o ToolheadGroup(0, DecLit(1, 100), DecLit(1, 100000), IntLit(10), IntLit(20), IntLit(48000000))
    \o ToolheadGroup(1, DecLit(2, 100), DecLit(2, 100000), IntLit(200), IntLit(100), IntLit(64000000))
\* toolhead0 without byte counts and freq, toolhead1 complete
LTh0Short ==
    StatsPrefix(DecLit(140, 10))
    \o ToolheadShort(0, DecLit(1, 100), DecLit(1, 100000))
    \o ToolheadGroup(1, DecLit(2, 100), DecLit(2, 100000), IntLit(200), IntLit(100), IntLit(64000000))
\* toolhead0 without freq, toolhead1 complete
LTh0NoFreq ==
    StatsPrefix(DecLit(150, 10))
    \o ToolheadNoFreq(0, DecLit(1, 100), DecLit(1, 100000), IntLit(10), IntLit(20))
    \o ToolheadGroup(1, DecLit(2, 100), DecLit(2, 100000), IntLit(200), IntLit(100), IntLit(64000000))
\* toolhead1 alone, without freq
LTh1NoFreq ==
    StatsPrefix(DecLit(155, 10))
    \o ToolheadNoFreq(1, DecLit(2, 100), DecLit(2, 100000), IntLit(200), IntLit(100))
\* the heaters and the print statistics
LHeaters ==
    StatsPrefix(DecLit(160, 10))
    \o HeaterGroup("heater_bed", IntLit(60), DecLit(598, 10), DecLit(25, 100))
    \o HeaterGroup("extruder", DecLit(2000, 10), DecLit(1995, 10), DecLit(5, 10))
    \o HeaterGroup("extruder1", IntLit(0), DecLit(250, 10), DecLit(0, 10))
    \o << KV("cputime", DecLit(35, 10)), KV("print_time", DecLit(1205, 10)),
          KV("buffer_time", DecLit(25, 100)), KV("print_stall", IntLit(3)) >>
\* the second extruder alone
LExtruder1 ==
    StatsPrefix(DecLit(170, 10))
    \o HeaterGroup("extruder1", DecLit(2100, 10), DecLit(2080, 10), DecLit(75, 100))
\* every family on one line
LFull ==
    StatsPrefix(DecLit(180, 10))
    \o McuGroup(DecLit(2, 1000), DecLit(8, 1000000), IntLit(1024), IntLit(2048))
    \o ToolheadGroup(0, DecLit(1, 100), DecLit(1, 100000), IntLit(10), IntLit(20), IntLit(48000000))
    \o ToolheadGroup(1, DecLit(2, 100), DecLit(2, 100000), IntLit(200), IntLit(100), IntLit(64000000))
    \o HeaterGroup("heater_bed", DecLit(600, 10), DecLit(601, 10), DecLit(10, 100))
    \o HeaterGroup("extruder", IntLit(200), DecLit(2001, 10), DecLit(30, 100))
    \o << KV("sysload", DecLit(125, 100)), KV("cputime", DecLit(35, 10)),
          KV("memavail", DecLit(40965, 10)), KV("print_time", DecLit(1205, 10)),
          KV("buffer_time", DecLit(21, 10)), KV("print_stall", IntLit(0)) >>
\* the main controller without its round-trip statistics
LMcuNoRtt ==
    StatsPrefix(DecLit(190, 10))
    \o SubSeq(McuGroup(DecLit(5, 100), DecLit(2, 10000), IntLit(100), IntLit(50)), 1, 9)
    \o <<KV("buffer_time", DecLit(25, 100))>>
\* a bytes_write of some 400 digits
LMcuWide == StatsPrefix(DecLit(200, 10))
            \o McuGroup(DecLit(5, 100), DecLit(2, 10000), WideInt, IntLit(50))
\* a toolhead0 freq of some 5000 digits, after a complete main controller
LTh0Huge ==
    StatsPrefix(DecLit(210, 10))
    \o McuGroup(DecLit(5, 100), DecLit(2, 10000), IntLit(100), IntLit(50))
    \o ToolheadGroup(0, DecLit(1, 100), DecLit(1, 100000), IntLit(10), IntLit(20), HugeInt)
\* a toolhead1 freq of some 400 digits
LTh1Wide ==
    StatsPrefix(DecLit(220, 10))
    \o ToolheadGroup(1, DecLit(2, 100), DecLit(2, 100000), IntLit(200), IntLit(100), WideInt)

Lines == { LBlank, LOther, LBadTs, LIntTs, LEmbedded, LTsOnly, LMcu, LSys, LTwoToolheads,
           LTh0Short, LTh0NoFreq, LTh1NoFreq, LHeaters, LExtruder1, LFull, LMcuNoRtt,
           LMcuWide, LTh0Huge, LTh1Wide }

LinesTwo == { LBlank, LOther, LBadTs, LMcu, LTwoToolheads, LTh0Huge }

SeqsUpTo(S, n) == UNION {[1..m -> S] : m \in 0..n}

Unreadable == [readable |-> FALSE, lines |-> <<>>]
FilesOf(S, n) == {[readable |-> TRUE, lines |-> s] : s \in SeqsUpTo(S, n)} \cup {Unreadable}

Files == FilesOf(Lines, MaxLines)
FilesTwo == FilesOf(LinesTwo, MaxLinesTwo)

\* the files the user picks in the file dialog
LinesGui == { LBlank, LOther, LBadTs, LMcu, LTh0Huge }
FilesGui == {[readable |-> TRUE, lines |-> <<l>>] : l \in LinesGui} \cup {Unreadable}

\* ------------------------------------------------------------------------
\* State
\* ------------------------------------------------------------------------
Parsers == {1, 2}

VARIABLES
    file,           \* file[p]: the file at self.file_path of parser thread p
    pc,             \* pc[p]: where thread p stands in run / parse_klippy_log
    idx,            \* idx[p]: number of lines the iteration has consumed
    handle,         \* handle[p]: state of the file object of the with block
    timestamps,     \* the local list timestamps of an invocation
    metrics_data,   \* the local dictionary metrics_data of an invocation
    exc,            \* exc[p]: the exception propagating to run, "" when none
    result,         \* result[p]: the value parse_klippy_log returned
    emitted         \* emitted[p]: the signals thread p has emitted, in order

\* the main window (KlippyLogAnalyzer); its handlers run one at a time on the
\* GUI thread
VARIABLES
    data,               \* self.data: the stored table, NoTable while None
    browse_enabled,     \* self.browse_button.isEnabled()
    dropdown_enabled,   \* self.metric_dropdown.isEnabled()
    parser_thread,      \* self.parser_thread: the parser last started, 0 when none
    handled,            \* handled[p]: signals of parser p delivered to their slot
    metric_checkboxes,  \* keys of self.metric_checkboxes, in insertion order
    checkbox_layout,    \* keys of the rows in self.checkbox_layout, in order
    metric_dropdown,    \* keys of the items of self.metric_dropdown after the placeholder
    add_returned        \* what the last call of add_metric_checkbox returned

window == <<data, browse_enabled, dropdown_enabled, parser_thread, handled,
            metric_checkboxes, checkbox_layout, metric_dropdown, add_returned>>

vars == <<file, pc, idx, handle, timestamps, metrics_data, exc, result, emitted, window>>

\* a variant in which the lists are shared by all invocations (class attributes)
FrameShared(p) == 1

\* the invocation that owns the locals parser p reads and writes
Frame(p) == p

CurrentLine(p) == file[p].lines[idx[p] + 1]

\* ------------------------------------------------------------------------
\* The metric selection of the main window
\* ------------------------------------------------------------------------
\* the keys of get_all_available_metrics, in order
get_all_available_metrics ==
    << "mcu_load", "bandwidth", "host_buffer", "awake_time",
       "mcu_bytes_write", "mcu_bytes_read", "mcu_bytes_retransmit",
       "mcu_send_seq", "mcu_receive_seq", "mcu_srtt", "mcu_rttvar", "mcu_rto",
       "toolhead0_load", "toolhead0_bandwidth", "toolhead0_awake",
       "toolhead0_bytes_write", "toolhead0_bytes_read", "toolhead0_freq",
       "toolhead1_load", "toolhead1_bandwidth", "toolhead1_awake",
       "toolhead1_bytes_write", "toolhead1_bytes_read", "toolhead1_freq",
       "heater_bed_target", "heater_bed_temp", "heater_bed_pwm",
       "extruder_target", "extruder_temp", "extruder_pwm",
       "extruder1_target", "extruder1_temp", "extruder1_pwm",
       "sysload", "cputime", "memavail", "print_time", "print_stall" >>

\* the keys of default_metrics in setup_default_metrics
default_metrics == << "mcu_load", "bandwidth", "host_buffer", "awake_time" >>

\* the keys the user picks from
PickKeys == {get_all_available_metrics[i] : i \in 1..MaxKeys}

SlotLimit == 4      \* "if len(self.metric_checkboxes) >= 4"

Range(s) == {s[i] : i \in 1..Len(s)}

\* d[k] = v on a dictionary: a new key goes last, a present key keeps its place
DictSet(d, k) == IF k \in Range(d) THEN d ELSE Append(d, k)

\* del d[k]
DictDel(d, k) == SelectSeq(d, LAMBDA x : x # k)

\* removeWidget of the container of key k: the row added last for k
RemoveRow(rows, k) ==
    IF k \notin Range(rows) THEN rows
    ELSE LET i == CHOOSE j \in 1..Len(rows) :
                      rows[j] = k /\ \A h \in (j + 1)..Len(rows) : rows[h] # k
         IN SubSeq(rows, 1, i - 1) \o SubSeq(rows, i + 1, Len(rows))

\* update_dropdown: the items after the placeholder
update_dropdown(boxes) ==
    SelectSeq(get_all_available_metrics, LAMBDA k : k \notin Range(boxes))

\* a variant without the limit
add_metric_checkbox_unlimited(w, metric_key) ==
    [ret |-> TRUE,
     w |-> [boxes |-> DictSet(w.boxes, metric_key),
            layout |-> Append(w.layout, metric_key),
            dropdown |-> update_dropdown(DictSet(w.boxes, metric_key))]]

\* add_metric_checkbox on the widgets w: the value returned and the widgets after
add_metric_checkbox(w, metric_key) ==
    IF Len(w.boxes) >= SlotLimit THEN [ret |-> FALSE, w |-> w]
    ELSE [ret |-> TRUE,
          w |-> [boxes |-> DictSet(w.boxes, metric_key),
                 layout |-> Append(w.layout, metric_key),
                 dropdown |-> update_dropdown(DictSet(w.boxes, metric_key))]]

remove_metric_checkbox(w, metric_key) ==
    IF metric_key \in Range(w.boxes)
    THEN [boxes |-> DictDel(w.boxes, metric_key),
          layout |-> RemoveRow(w.layout, metric_key),
          dropdown |-> update_dropdown(DictDel(w.boxes, metric_key))]
    ELSE w

\* the widgets before setup_default_metrics: nothing added, the dropdown empty
NoWidgets == [boxes |-> <<>>, layout |-> <<>>, dropdown |-> <<>>]

\* setup_default_metrics: add_metric_checkbox for each default metric in turn
RECURSIVE setup_default_metrics(_, _)
setup_default_metrics(w, i) ==
    IF i > Len(default_metrics) THEN [ret |-> TRUE, w |-> w]
    ELSE The({ IF i = Len(default_metrics) THEN r
               ELSE setup_default_metrics(r.w, i + 1)
               : r \in {add_metric_checkbox(w, default_metrics[i])} })

\* the window after __init__
InitWindow ==
    /\ data = NoTable
    /\ browse_enabled = TRUE
    /\ dropdown_enabled = FALSE
    /\ parser_thread = 0
    /\ handled = [p \in Parsers |-> 0]
    /\ \E r \in {setup_default_metrics(NoWidgets, 1)} :
          /\ metric_checkboxes = r.w.boxes
          /\ checkbox_layout = r.w.layout
          /\ metric_dropdown = r.w.dropdown
          /\ add_returned = r.ret

InitCommon ==
    /\ InitWindow
    /\ idx = [p \in Parsers |-> 0]
    /\ handle = [p \in Parsers |-> "none"]
    /\ timestamps = [p \in Parsers |-> <<>>]
    /\ metrics_data = [p \in Parsers |-> EmptyMetrics]
    /\ exc = [p \in Parsers |-> ""]
    /\ result = [p \in Parsers |-> NoTable]
    /\ emitted = [p \in Parsers |-> <<>>]

\* one parser thread is started on any file
Init ==
    /\ file \in {[p \in Parsers |-> IF p = 1 THEN f ELSE Unreadable] : f \in Files}
    /\ pc = [p \in Parsers |-> IF p = 1 THEN "start" ELSE "idle"]
    /\ InitCommon

\* two parser threads are started, on the same or on different files
InitTwo ==
    /\ file \in [Parsers -> FilesTwo]
    /\ pc = [p \in Parsers |-> "start"]
    /\ InitCommon

\* ------------------------------------------------------------------------
\* Actions
\* ------------------------------------------------------------------------
\* parse_klippy_log is entered and open() succeeds
OpenFile(p) ==
    /\ pc[p] = "start"
    /\ file[p].readable
    /\ timestamps' = [timestamps EXCEPT ![Frame(p)] = <<>>]
    /\ metrics_data' = [metrics_data EXCEPT ![Frame(p)] = EmptyMetrics]
    /\ handle' = [handle EXCEPT ![p] = "open"]
    /\ pc' = [pc EXCEPT ![p] = "reading"]
    /\ UNCHANGED <<window, file, idx, exc, result, emitted>>

\* parse_klippy_log is entered and open() raises
OpenFails(p) ==
    /\ pc[p] = "start"
    /\ ~file[p].readable
    /\ timestamps' = [timestamps EXCEPT ![Frame(p)] = <<>>]
    /\ metrics_data' = [metrics_data EXCEPT ![Frame(p)] = EmptyMetrics]
    /\ exc' = [exc EXCEPT ![p] = "FileNotFoundError"]
    /\ pc' = [pc EXCEPT ![p] = "raised"]
    /\ UNCHANGED <<window, file, idx, handle, result, emitted>>

HasLine(p) == pc[p] = "reading" /\ idx[p] < Len(file[p].lines)

Skip(p) ==
    /\ idx' = [idx EXCEPT ![p] = @ + 1]
    /\ UNCHANGED <<window, file, pc, handle, timestamps, metrics_data, exc, result, emitted>>

\* "if not line.strip(): continue"
SkipBlank(p) ==
    /\ HasLine(p)
    /\ IsBlank(CurrentLine(p))
    /\ Skip(p)

\* the line does not start with 'Stats '
SkipNonStats(p) ==
    /\ HasLine(p)
    /\ ~IsBlank(CurrentLine(p))
    /\ ~StartsWithStats(CurrentLine(p))
    /\ Skip(p)

\* "if not timestamp_match: continue"
SkipNoTimestamp(p) ==
    /\ HasLine(p)
    /\ ~IsBlank(CurrentLine(p))
    /\ StartsWithStats(CurrentLine(p))
    /\ ~TimestampMatch(CurrentLine(p)).ok
    /\ Skip(p)

IsRecordStep(p) ==
    /\ HasLine(p)
    /\ ~IsBlank(CurrentLine(p))
    /\ StartsWithStats(CurrentLine(p))
    /\ TimestampMatch(CurrentLine(p)).ok

\* the timestamp is appended and extract_all_metrics returns
RecordLine(p) ==
    /\ IsRecordStep(p)
    /\ \E st \in {extract_all_metrics(CurrentLine(p), metrics_data[Frame(p)])} :
          /\ st.err = ""
          /\ timestamps' = [timestamps EXCEPT ![Frame(p)] =
                                Append(@, PyFloat(TimestampMatch(CurrentLine(p)).caps[1]))]
          /\ metrics_data' = [metrics_data EXCEPT ![Frame(p)] = st.md]
    /\ idx' = [idx EXCEPT ![p] = @ + 1]
    /\ UNCHANGED <<window, file, pc, handle, exc, result, emitted>>

\* a variant without the with block: an exception leaves the file open
RecordLineRaisesLeak(p) ==
    /\ IsRecordStep(p)
    /\ \E st \in {extract_all_metrics(CurrentLine(p), metrics_data[Frame(p)])} :
          /\ st.err # ""
          /\ timestamps' = [timestamps EXCEPT ![Frame(p)] =
                                Append(@, PyFloat(TimestampMatch(CurrentLine(p)).caps[1]))]
          /\ metrics_data' = [metrics_data EXCEPT ![Frame(p)] = st.md]
          /\ exc' = [exc EXCEPT ![p] = st.err]
    /\ idx' = [idx EXCEPT ![p] = @ + 1]
    /\ pc' = [pc EXCEPT ![p] = "raised"]
    /\ UNCHANGED <<window, file, handle, result, emitted>>

\* the timestamp is appended and extract_all_metrics raises: the with block
\* closes the file and the exception leaves parse_klippy_log
RecordLineRaises(p) ==
    /\ IsRecordStep(p)
    /\ \E st \in {extract_all_metrics(CurrentLine(p), metrics_data[Frame(p)])} :
          /\ st.err # ""
          /\ timestamps' = [timestamps EXCEPT ![Frame(p)] =
                                Append(@, PyFloat(TimestampMatch(CurrentLine(p)).caps[1]))]
          /\ metrics_data' = [metrics_data EXCEPT ![Frame(p)] = st.md]
          /\ exc' = [exc EXCEPT ![p] = st.err]
    /\ idx' = [idx EXCEPT ![p] = @ + 1]
    /\ handle' = [handle EXCEPT ![p] = "closed"]
    /\ pc' = [pc EXCEPT ![p] = "raised"]
    /\ UNCHANGED <<window, file, result, emitted>>

\* the iteration ends: the with block closes the file, the closing step
\* builds the result and parse_klippy_log returns it
EndOfFile(p) ==
    /\ pc[p] = "reading"
    /\ idx[p] = Len(file[p].lines)
    /\ handle' = [handle EXCEPT ![p] = "closed"]
    /\ result' = [result EXCEPT ![p] = ClosingStep(timestamps[Frame(p)], metrics_data[Frame(p)])]
    /\ pc' = [pc EXCEPT ![p] = "returned"]
    /\ UNCHANGED <<window, file, idx, timestamps, metrics_data, exc, emitted>>

DataReady(table) == [sig |-> "dataReady", data |-> table, msg |-> ""]
ErrorOccurred(msg) == [sig |-> "errorOccurred", data |-> NoTable, msg |-> msg]

\* run: self.dataReady.emit(data)
EmitDataReady(p) ==
    /\ pc[p] = "returned"
    /\ emitted' = [emitted EXCEPT ![p] = Append(@, DataReady(result[p]))]
    /\ pc' = [pc EXCEPT ![p] = "done"]
    /\ UNCHANGED <<window, file, idx, handle, timestamps, metrics_data, exc, result>>

\* a variant that swallows the exception: "except Exception: pass"
EmitErrorSwallowed(p) ==
    /\ pc[p] = "raised"
    /\ pc' = [pc EXCEPT ![p] = "done"]
    /\ UNCHANGED <<window, file, idx, handle, timestamps, metrics_data, exc, result, emitted>>

\* run: except Exception as e: self.errorOccurred.emit(str(e))
EmitErrorOccurred(p) ==
    /\ pc[p] = "raised"
    /\ emitted' = [emitted EXCEPT ![p] = Append(@, ErrorOccurred(exc[p]))]
    /\ pc' = [pc EXCEPT ![p] = "done"]
    /\ UNCHANGED <<window, file, idx, handle, timestamps, metrics_data, exc, result>>

Next ==
    \E p \in Parsers :
        \/ OpenFile(p)
        \/ OpenFails(p)
        \/ SkipBlank(p)
        \/ SkipNonStats(p)
        \/ SkipNoTimestamp(p)
        \/ RecordLine(p)
        \/ RecordLineRaises(p)
        \/ EndOfFile(p)
        \/ EmitDataReady(p)
        \/ EmitErrorOccurred(p)

Spec == Init /\ [][Next]_vars

SpecTwo == InitTwo /\ [][Next]_vars

\* ------------------------------------------------------------------------
\* The handlers of the main window
\* ------------------------------------------------------------------------
Widgets == [boxes |-> metric_checkboxes, layout |-> checkbox_layout, dropdown |-> metric_dropdown]

SetWidgets(w) ==
    /\ metric_checkboxes' = w.boxes
    /\ checkbox_layout' = w.layout
    /\ metric_dropdown' = w.dropdown

\* the keys the dropdown offers to the user
Offered == Range(metric_dropdown) \cap PickKeys

\* add_metric_checkbox called with the data of a dropdown item, as its callers do
AddMetricCheckbox(k) ==
    /\ dropdown_enabled
    /\ k \in Offered
    /\ \E r \in {add_metric_checkbox(Widgets, k)} :
          /\ SetWidgets(r.w)
          /\ add_returned' = r.ret
    /\ UNCHANGED <<file, pc, idx, handle, timestamps, metrics_data, exc, result, emitted>>
    /\ UNCHANGED <<data, browse_enabled, dropdown_enabled, parser_thread, handled>>

\* on_metric_selected: the user picks the item of key k in the enabled dropdown
OnMetricSelected(k) ==
    /\ dropdown_enabled
    /\ k \in Offered
    /\ IF Len(metric_checkboxes) < SlotLimit
       THEN \E r \in {add_metric_checkbox(Widgets, k)} :
               /\ SetWidgets(r.w)
               /\ add_returned' = r.ret
       ELSE UNCHANGED <<metric_checkboxes, checkbox_layout, metric_dropdown, add_returned>>
    /\ UNCHANGED <<file, pc, idx, handle, timestamps, metrics_data, exc, result, emitted>>
    /\ UNCHANGED <<data, browse_enabled, dropdown_enabled, parser_thread, handled>>

\* the remove button of the row of key k is clicked
RemoveMetricCheckbox(k) ==
    /\ k \in Range(checkbox_layout)
    /\ SetWidgets(remove_metric_checkbox(Widgets, k))
    /\ UNCHANGED <<file, pc, idx, handle, timestamps, metrics_data, exc, result, emitted>>
    /\ UNCHANGED <<data, browse_enabled, dropdown_enabled, parser_thread, handled, add_returned>>

\* a signal of parser p is queued for the GUI thread
Pending(p) == handled[p] < Len(emitted[p])
NextSignal(p) == emitted[p][handled[p] + 1]

\* a parser object that is not running and has nothing queued can be replaced
FreeSlot(p) == pc[p] = "idle" \/ (pc[p] = "done" /\ ~Pending(p))

\* self.parser_thread = LogParser(file_path); connect; start
StartParser(p, f) ==
    /\ parser_thread' = p
    /\ file' = [file EXCEPT ![p] = f]
    /\ pc' = [pc EXCEPT ![p] = "start"]
    /\ idx' = [idx EXCEPT ![p] = 0]
    /\ handle' = [handle EXCEPT ![p] = "none"]
    /\ timestamps' = [timestamps EXCEPT ![p] = <<>>]
    /\ metrics_data' = [metrics_data EXCEPT ![p] = EmptyMetrics]
    /\ exc' = [exc EXCEPT ![p] = ""]
    /\ result' = [result EXCEPT ![p] = NoTable]
    /\ emitted' = [emitted EXCEPT ![p] = <<>>]
    /\ handled' = [handled EXCEPT ![p] = 0]

\* a variant that leaves the browse button enabled
load_log_file_enabled(p, f) ==
    /\ dropdown_enabled' = FALSE
    /\ StartParser(p, f)
    /\ UNCHANGED <<data, browse_enabled, metric_checkboxes, checkbox_layout, metric_dropdown,
                   add_returned>>

load_log_file(p, f) ==
    /\ browse_enabled' = FALSE
    /\ dropdown_enabled' = FALSE
    /\ StartParser(p, f)
    /\ UNCHANGED <<data, metric_checkboxes, checkbox_layout, metric_dropdown, add_returned>>

\* browse_file: the enabled browse button is clicked and the dialog returns f
BrowseFile(f) ==
    /\ browse_enabled
    /\ \E p \in Parsers :
          /\ FreeSlot(p)
          /\ \A q \in Parsers : q < p => ~FreeSlot(q)
          /\ load_log_file(p, f)

\* on_data_ready, the slot of dataReady
OnDataReady(p) ==
    /\ Pending(p)
    /\ NextSignal(p).sig = "dataReady"
    /\ data' = NextSignal(p).data
    /\ browse_enabled' = TRUE
    /\ dropdown_enabled' = TRUE
    /\ handled' = [handled EXCEPT ![p] = @ + 1]
    /\ UNCHANGED <<file, pc, idx, handle, timestamps, metrics_data, exc, result, emitted>>
    /\ UNCHANGED <<parser_thread, metric_checkboxes, checkbox_layout, metric_dropdown,
                   add_returned>>

\* on_error, the slot of errorOccurred
OnError(p) ==
    /\ Pending(p)
    /\ NextSignal(p).sig = "errorOccurred"
    /\ browse_enabled' = TRUE
    /\ handled' = [handled EXCEPT ![p] = @ + 1]
    /\ UNCHANGED <<file, pc, idx, handle, timestamps, metrics_data, exc, result, emitted>>
    /\ UNCHANGED <<data, dropdown_enabled, parser_thread, metric_checkboxes, checkbox_layout,
                   metric_dropdown, add_returned>>

\* the window is shown and no parser exists yet
InitGui ==
    /\ file = [p \in Parsers |-> Unreadable]
    /\ pc = [p \in Parsers |-> "idle"]
    /\ InitCommon

NextGui ==
    \/ \E f \in FilesGui : BrowseFile(f)
    \/ \E p \in Parsers : OnDataReady(p)
    \/ \E p \in Parsers : OnError(p)
    \/ \E k \in PickKeys : AddMetricCheckbox(k)
    \/ \E k \in PickKeys : OnMetricSelected(k)
    \/ \E k \in PickKeys : RemoveMetricCheckbox(k)
    \/ Next

SpecGui == InitGui /\ [][NextGui]_vars

TypeOK ==
    /\ \A p \in Parsers : pc[p] \in {"idle", "start", "reading", "raised", "returned", "done"}
    /\ \A p \in Parsers : handle[p] \in {"none", "open", "closed"}

\* ------------------------------------------------------------------------
\* Properties
\* ------------------------------------------------------------------------
Min(S) == CHOOSE x \in S : \A y \in S : x <= y

Finished(p) == pc[p] = "done"

\* every series of the locals of p is as long as the timestamp list
Rectangular(p) ==
    /\ DOMAIN metrics_data[p] = Keys
    /\ \A k \in Keys : Len(metrics_data[p][k]) = Len(timestamps[p])

RectangularTable(t) ==
    /\ DOMAIN t.series = Keys
    /\ \A k \in Keys : Len(t.series[k]) = Len(t.timestamps)

\* C1: between two lines of the iteration (each line skipped or recorded) and
\* in the returned table, each of the 38 registered series is exactly as long
\* as the timestamp sequence.
C1_Rectangularity ==
    /\ Cardinality(Keys) = 38
    /\ \A p \in Parsers :
          /\ (pc[p] \in {"reading", "returned", "done"} /\ exc[p] = "") => Rectangular(p)
          /\ result[p].has => RectangularTable(result[p])

\* two record lines processed, one metric extracted and another sentinel-filled
C1_Witness ==
    \E p \in Parsers :
        /\ pc[p] = "reading"
        /\ Len(timestamps[p]) = 2
        /\ \E k \in Keys : metrics_data[p][k][2] # Zero
        /\ \E k \in Keys : metrics_data[p][k][2] = Zero

\* the record lines of the specification: Stats, a parseable float, a colon
SpecRecordLine(line) ==
    /\ Len(line) >= 2
    /\ line[1].t = "stats"
    /\ line[2].t = "ts"
    /\ line[2].v.form \in {"dec", "int"}

\* a non-blank line that starts with Stats and holds, anywhere,
\* Stats <digits>.<digits>:
SearchedRecordLine(line) ==
    /\ Len(line) >= 2
    /\ line[1].t = "stats"
    /\ \E i \in 1..(Len(line) - 1) :
          line[i].t = "stats" /\ line[i + 1].t = "ts" /\ line[i + 1].v.form = "dec"

SpecRecordCount(lines) == Cardinality({i \in 1..Len(lines) : SpecRecordLine(lines[i])})
SearchedRecordCount(lines) == Cardinality({i \in 1..Len(lines) : SearchedRecordLine(lines[i])})

TableOfLength(t, n) ==
    /\ t.has
    /\ Len(t.timestamps) = n
    /\ DOMAIN t.series = Keys
    /\ \A k \in Keys : Len(t.series[k]) = n

C3_ExactlyOneOutcome ==
    \A p \in Parsers :
        /\ Len(emitted[p]) <= 1
        /\ Finished(p) <=> Len(emitted[p]) = 1
        /\ Finished(p) =>
              LET out == emitted[p][1]
              IN IF exc[p] = "" /\ file[p].readable
                 THEN /\ out.sig = "dataReady"
                      /\ out.data.has
                      /\ RectangularTable(out.data)
                      /\ out.data.timestamps = timestamps[p]
                 ELSE /\ out.sig = "errorOccurred"
                      /\ ~out.data.has
                      /\ out.msg = exc[p]
        /\ (exc[p] # "" \/ ~file[p].readable) => ~result[p].has

\* a run that failed on its second line, after one recorded line, has ended
C3_Witness ==
    /\ Finished(1)
    /\ exc[1] # ""
    /\ Len(timestamps[1]) = 2
    /\ emitted[1][1].sig = "errorOccurred"

\* ---- steps of the iteration, as seen from outside ----
\* parser p has consumed its current line
Consumed(p) == HasLine(p) /\ idx'[p] = idx[p] + 1

\* parser p has recorded its current line and goes on reading
Recorded(p) ==
    /\ Consumed(p)
    /\ pc'[p] = "reading"
    /\ Len(timestamps'[p]) = Len(timestamps[p]) + 1

\* the step has put v into series k at the index of the new timestamp
AppendedIs(p, k, v) ==
    /\ Len(metrics_data'[p][k]) = Len(timestamps'[p])
    /\ metrics_data'[p][k][Len(timestamps'[p])] = v

\* ---- groups of a line ----
HasGroup(line, name) == \E i \in 1..Len(line) : line[i] = Grp(name)
GroupStart(line, name) == Min({i \in 1..Len(line) : line[i] = Grp(name)})
GroupEnd(line, name) ==
    Min({j \in (GroupStart(line, name) + 1)..Len(line) : line[j].t = "grp"} \cup {Len(line) + 1})
\* the label of the group and the tokens up to the next label
GroupTokens(line, name) == SubSeq(line, GroupStart(line, name), GroupEnd(line, name) - 1)

\* C4: on a recorded line that holds both toolhead groups, the values appended
\* to the series of each toolhead are those its own group alone yields (the
\* sentinel when its own group does not satisfy the pattern); likewise for
\* the extruder and extruder1 groups.
C4_NoCrossContamination ==
    [][\A p \in Parsers : Recorded(p) =>
         LET line == CurrentLine(p)
         IN /\ (HasGroup(line, "toolhead0") /\ HasGroup(line, "toolhead1")) =>
                  \A num \in {0, 1} : \A k \in ToolheadKeys(num) :
                      AppendedIs(p, k,
                          ExtractToolhead(num, GroupTokens(line, ToolheadName(num)),
                                          EmptyMetrics).md[k][1])
            /\ (HasGroup(line, "extruder") /\ HasGroup(line, "extruder1")) =>
                  \A name \in {"extruder", "extruder1"} : \A k \in HeaterKeys(name) :
                      AppendedIs(p, k,
                          ExtractExtruder(name, GroupTokens(line, name),
                                          EmptyMetrics).md[k][1])
    ]_vars

\* C5: consuming a line that is not a record line of the specification
\* (blank, not starting with Stats, or Stats not followed by a parseable
\* float and a colon) appends nothing and the parse goes on.
C5_NonRecordLineSkipped ==
    [][\A p \in Parsers :
         (Consumed(p) /\ ~SpecRecordLine(CurrentLine(p))) =>
            /\ timestamps'[p] = timestamps[p]
            /\ metrics_data'[p] = metrics_data[p]
            /\ pc'[p] = "reading"
            /\ exc'[p] = ""
    ]_vars

\* ---- the metric families ----
Families == {"mcu", "toolhead0", "toolhead1", "heater_bed", "extruder", "extruder1",
             "sysload", "cputime", "memavail", "print_time", "print_stall", "host_buffer"}

FamilyPattern(f) ==
    CASE f = "mcu" -> McuPattern
      [] f = "toolhead0" -> ToolheadPattern(0)
      [] f = "toolhead1" -> ToolheadPattern(1)
      [] f \in {"heater_bed", "extruder", "extruder1"} -> HeaterPattern(f)
      [] f = "host_buffer" -> BufferPattern
      [] OTHER -> SystemPattern(f)

FamilyKeys(f) ==
    CASE f = "mcu" -> McuKeys
      [] f = "toolhead0" -> ToolheadKeys(0)
      [] f = "toolhead1" -> ToolheadKeys(1)
      [] f \in {"heater_bed", "extruder", "extruder1"} -> HeaterKeys(f)
      [] OTHER -> {f}

FamilyExtract(f, line, md) ==
    CASE f = "mcu" -> ExtractMcu(line, md)
      [] f = "toolhead0" -> ExtractToolhead(0, line, md)
      [] f = "toolhead1" -> ExtractToolhead(1, line, md)
      [] f = "heater_bed" -> ExtractHeaterBed(line, md)
      [] f \in {"extruder", "extruder1"} -> ExtractExtruder(f, line, md)
      [] f = "host_buffer" -> ExtractBuffer(line, md)
      [] OTHER -> ExtractSystemMetric(f, line, md)

FamilyMatches(f, line) == Search(FamilyPattern(f), line).ok

\* C6: on a recorded line, a family whose pattern does not match gets 0.0 in
\* each of its keys at the index of the line, and each family whose pattern
\* matches gets there the values it extracts from the line alone, whatever
\* the other families did and whatever the table held before.
C6_SentinelRule ==
    [][\A p \in Parsers : Recorded(p) =>
         \A f \in Families : \A k \in FamilyKeys(f) :
             IF FamilyMatches(f, CurrentLine(p))
             THEN AppendedIs(p, k, FamilyExtract(f, CurrentLine(p), EmptyMetrics).md[k][1])
             ELSE AppendedIs(p, k, Zero)
    ]_vars

\* the second recorded line lacks a family that the first one had, and has
\* another family
C6_Witness ==
    \E p \in Parsers : \E f, g \in Families :
        /\ pc[p] = "reading"
        /\ idx[p] = 2
        /\ Len(timestamps[p]) = 2
        /\ FamilyMatches(f, file[p].lines[1])
        /\ ~FamilyMatches(f, file[p].lines[2])
        /\ FamilyMatches(g, file[p].lines[2])
        /\ \A k \in FamilyKeys(f) : metrics_data[p][k][1] # Zero /\ metrics_data[p][k][2] = Zero
        /\ \E k \in FamilyKeys(g) : metrics_data[p][k][2] # Zero

EmptyTable == Table(<<>>, [k \in Keys |-> <<>>])

\* C8: a readable file without any record line of the specification ends with
\* the success signal carrying the table of empty sequences.
C8_EmptyInput ==
    \A p \in Parsers :
        (Finished(p) /\ file[p].readable /\ SpecRecordCount(file[p].lines) = 0) =>
            emitted[p] = <<DataReady(EmptyTable)>>

\* ---- a parse of one file on its own, as one computation ----
SoloLine(line, acc) ==
    IF acc.err # "" \/ IsBlank(line) \/ ~StartsWithStats(line) \/ ~TimestampMatch(line).ok
    THEN acc
    ELSE The({ [ts |-> Append(acc.ts, PyFloat(TimestampMatch(line).caps[1])),
                md |-> st.md, err |-> st.err]
               : st \in {extract_all_metrics(line, acc.md)} })

RECURSIVE SoloLines(_, _)
SoloLines(lines, i) ==
    IF i = 0 THEN [ts |-> <<>>, md |-> EmptyMetrics, err |-> ""]
    ELSE The({SoloLine(lines[i], acc) : acc \in {SoloLines(lines, i - 1)}})

SoloOutcome(f) ==
    IF ~f.readable THEN ErrorOccurred("FileNotFoundError")
    ELSE The({ IF r.err # "" THEN ErrorOccurred(r.err) ELSE DataReady(ClosingStep(r.ts, r.md))
               : r \in {SoloLines(f.lines, Len(f.lines))} })

\* C9: however two parses interleave, each ends with the outcome of a parse
\* of its own file on its own; two parses of equal content end alike.
C9_Isolation ==
    /\ \A p \in Parsers : Finished(p) => emitted[p] = <<SoloOutcome(file[p])>>
    /\ \A p, q \in Parsers :
          (Finished(p) /\ Finished(q) /\ file[p] = file[q]) => emitted[p] = emitted[q]

\* both parses are in the middle of their files, each with a recorded line
C9_Witness ==
    /\ \A p \in Parsers : pc[p] = "reading" /\ idx[p] = 1 /\ Len(timestamps[p]) = 1
    /\ file[1] # file[2]

\* ---- the transforms the specification requires ----
\* the value of the text of a number
LitValue(lit) == IF lit.size = "normal" THEN Rat(lit.n, lit.d) ELSE Inf

Transform(fam, groups, mul, div) == [fam |-> fam, groups |-> groups, mul |-> mul, div |-> div]

\* for each key: its family, the capture groups it is computed from (their
\* sum when there are two), the factor and the divisor
RequiredTransform(k) ==
    CASE k = "mcu_load" -> Transform("mcu", {2}, 100000, 1)
      [] k = "bandwidth" -> Transform("mcu", {4, 5}, 1, 1024)
      [] k = "awake_time" -> Transform("mcu", {1}, 100, 1)
      [] k = "mcu_bytes_write" -> Transform("mcu", {4}, 1, 1)
      [] k = "mcu_bytes_read" -> Transform("mcu", {5}, 1, 1)
      [] k = "mcu_bytes_retransmit" -> Transform("mcu", {6}, 1, 1)
      [] k = "mcu_send_seq" -> Transform("mcu", {7}, 1, 1)
      [] k = "mcu_receive_seq" -> Transform("mcu", {8}, 1, 1)
      [] k = "mcu_srtt" -> Transform("mcu", {9}, 1000, 1)
      [] k = "mcu_rttvar" -> Transform("mcu", {10}, 1000, 1)
      [] k = "mcu_rto" -> Transform("mcu", {11}, 1000, 1)
      [] k = "toolhead0_load" -> Transform("toolhead0", {2}, 100000, 1)
      [] k = "toolhead0_bandwidth" -> Transform("toolhead0", {3, 4}, 1, 1024)
      [] k = "toolhead0_awake" -> Transform("toolhead0", {1}, 100, 1)
      [] k = "toolhead0_bytes_write" -> Transform("toolhead0", {3}, 1, 1)
      [] k = "toolhead0_bytes_read" -> Transform("toolhead0", {4}, 1, 1)
      [] k = "toolhead0_freq" -> Transform("toolhead0", {5}, 1, 1000000)
      [] k = "toolhead1_load" -> Transform("toolhead1", {2}, 100000, 1)
      [] k = "toolhead1_bandwidth" -> Transform("toolhead1", {3, 4}, 1, 1024)
      [] k = "toolhead1_awake" -> Transform("toolhead1", {1}, 100, 1)
      [] k = "toolhead1_bytes_write" -> Transform("toolhead1", {3}, 1, 1)
      [] k = "toolhead1_bytes_read" -> Transform("toolhead1", {4}, 1, 1)
      [] k = "toolhead1_freq" -> Transform("toolhead1", {5}, 1, 1000000)
      [] k = "heater_bed_target" -> Transform("heater_bed", {1}, 1, 1)
      [] k = "heater_bed_temp" -> Transform("heater_bed", {2}, 1, 1)
      [] k = "heater_bed_pwm" -> Transform("heater_bed", {3}, 100, 1)
      [] k = "extruder_target" -> Transform("extruder", {1}, 1, 1)
      [] k = "extruder_temp" -> Transform("extruder", {2}, 1, 1)
      [] k = "extruder_pwm" -> Transform("extruder", {3}, 100, 1)
      [] k = "extruder1_target" -> Transform("extruder1", {1}, 1, 1)
      [] k = "extruder1_temp" -> Transform("extruder1", {2}, 1, 1)
      [] k = "extruder1_pwm" -> Transform("extruder1", {3}, 100, 1)
      [] k = "memavail" -> Transform("memavail", {1}, 1, 1024)
      [] k = "host_buffer" -> Transform("host_buffer", {1}, 1, 1)
      [] OTHER -> Transform(k, {1}, 1, 1)

RECURSIVE SumOf(_, _)
SumOf(caps, groups) ==
    IF groups = {} THEN Zero
    ELSE LET g == CHOOSE x \in groups : TRUE
         IN RAdd(LitValue(caps[g]), SumOf(caps, groups \ {g}))

RequiredValue(k, line) ==
    LET t == RequiredTransform(k)
        raw == SumOf(Search(FamilyPattern(t.fam), line).caps, t.groups)
    IN Rat(raw[1] * t.mul, raw[2] * t.div)

\* C10: on a recorded line, each metric whose pattern matches gets the
\* required transform of the captured text: x 100000 for the load, x 100 for
\* the awake fraction and the PWM duty, the sum of the byte counts / 1024,
\* x 1000 for srtt, rttvar and rto, / 1000000 for freq, / 1024 for memavail,
\* and the captured number itself otherwise; the main-controller line of the
\* specification gives 20, 150/1024, 5, 10, 2, 50, 100, 50 and 0.
C10_ScaleTransforms ==
    [][\A p \in Parsers : Recorded(p) =>
         /\ \A k \in Keys :
               FamilyMatches(RequiredTransform(k).fam, CurrentLine(p)) =>
                   AppendedIs(p, k, RequiredValue(k, CurrentLine(p)))
         /\ CurrentLine(p) = LMcu =>
               /\ AppendedIs(p, "mcu_load", <<20, 1>>)
               /\ AppendedIs(p, "bandwidth", <<75, 512>>)
               /\ AppendedIs(p, "awake_time", <<5, 1>>)
               /\ AppendedIs(p, "mcu_srtt", <<10, 1>>)
               /\ AppendedIs(p, "mcu_rttvar", <<2, 1>>)
               /\ AppendedIs(p, "mcu_rto", <<50, 1>>)
               /\ AppendedIs(p, "mcu_bytes_write", <<100, 1>>)
               /\ AppendedIs(p, "mcu_bytes_read", <<50, 1>>)
               /\ AppendedIs(p, "mcu_bytes_retransmit", <<0, 1>>)
    ]_vars

\* the main-controller line of the specification has been recorded, and so
\* has the line that holds every family
C10_Witness ==
    \E p \in Parsers :
        /\ pc[p] = "reading"
        /\ idx[p] = 2
        /\ file[p].lines = <<LMcu, LFull>>
        /\ metrics_data[p]["mcu_load"] = <<(<<20, 1>>), (<<4, 5>>)>>
        /\ metrics_data[p]["toolhead1_freq"] = <<Zero, (<<64, 1>>)>>
        /\ metrics_data[p]["memavail"] = <<Zero, (<<4, 1>>)>>

\* ------------------------------------------------------------------------
\* C11: the file handle of the with block
\* ------------------------------------------------------------------------
\* parse_klippy_log has ended, by a return or by an exception, or run has
\* delivered the outcome
ParseEnded(p) == pc[p] \in {"returned", "raised", "done"}

\* C11: in every state in which a parse has ended, with a returned table or
\* with an exception raised from any line, the handle it opened is closed; a
\* handle is open only while the lines are being read, never once the outcome
\* has been delivered.
C11_HandleReleased ==
    \A p \in Parsers :
        /\ ParseEnded(p) => handle[p] # "open"
        /\ ParseEnded(p) /\ file[p].readable => handle[p] = "closed"
        /\ handle[p] = "open" => pc[p] = "reading"

\* a parse that opened its file and failed on a line has delivered its error
C11_Witness ==
    \E p \in Parsers :
        /\ Finished(p)
        /\ file[p].readable
        /\ handle[p] = "closed"
        /\ emitted[p] = <<ErrorOccurred("OverflowError")>>

\* ------------------------------------------------------------------------
\* C12: the metric selection
\* ------------------------------------------------------------------------
NoRepeat(s) == \A i, j \in 1..Len(s) : s[i] = s[j] => i = j

\* C12: starting from the 4 default metrics, after any sequence of adds,
\* dropdown selections and removes at most 4 metrics are active; no key is
\* active twice, in the dictionary or as a row, and the dropdown offers
\* exactly the keys that are not active; an add attempted while 4 metrics are
\* active returns False and changes nothing.
C12_SlotLimit ==
    /\ [](/\ Len(metric_checkboxes) <= 4
          /\ NoRepeat(metric_checkboxes)
          /\ NoRepeat(checkbox_layout)
          /\ Range(checkbox_layout) = Range(metric_checkboxes)
          /\ Range(metric_dropdown) = Range(get_all_available_metrics) \ Range(metric_checkboxes))
    /\ [][ /\ Len(metric_checkboxes') > Len(metric_checkboxes)
              => Len(metric_checkboxes) < 4 /\ add_returned'
           /\ Len(metric_checkboxes) = 4 /\ add_returned' # add_returned
              => /\ add_returned' = FALSE
                 /\ UNCHANGED <<metric_checkboxes, checkbox_layout, metric_dropdown>> ]_vars

\* a default metric was removed, another metric was selected in its place and
\* a further add, attempted with 4 metrics active, was refused
C12_Witness ==
    /\ Len(metric_checkboxes) = 4
    /\ Range(metric_checkboxes) # Range(default_metrics)
    /\ add_returned = FALSE

\* ------------------------------------------------------------------------
\* C13: one parse in flight
\* ------------------------------------------------------------------------
\* the thread of parser p has been started and run has not ended
Running(p) == pc[p] \in {"start", "reading", "raised", "returned"}

\* the slot of parser p handles the signal sig in this step
Handles(p, sig) ==
    /\ Pending(p)
    /\ NextSignal(p).sig = sig
    /\ handled'[p] = handled[p] + 1

\* C13: with loads started by the browse button only, at most one parser
\* thread runs at any time and the button is disabled while the parse is in
\* flight; the button is disabled when a thread is started and re-enabled only
\* by on_data_ready or on_error; the stored table is replaced only by the
\* table the current thread delivered; an error leaves the stored table as it
\* was and re-enables the button.
C13_SingleParse ==
    /\ [](/\ Cardinality({p \in Parsers : Running(p)}) <= 1
          /\ \A p \in Parsers : Running(p) \/ Pending(p)
                                   => ~browse_enabled /\ p = parser_thread)
    /\ [][ /\ \A p \in Parsers : ~Running(p) /\ Running(p)' => browse_enabled /\ ~browse_enabled'
           /\ ~browse_enabled /\ browse_enabled'
              => \E p \in Parsers : Handles(p, "dataReady") \/ Handles(p, "errorOccurred")
           /\ data' # data
              => /\ Handles(parser_thread, "dataReady")
                 /\ data' = NextSignal(parser_thread).data
           /\ \A p \in Parsers : Handles(p, "dataReady") => data' = NextSignal(p).data
           /\ \A p \in Parsers : Handles(p, "errorOccurred") => data' = data /\ browse_enabled'
         ]_vars

\* a table was stored by one load, and a later load has ended with an error
\* that was delivered: the table is still stored and the button is enabled
C13_Witness ==
    /\ data.has
    /\ Len(data.timestamps) > 0
    /\ browse_enabled
    /\ parser_thread \in Parsers
    /\ \E p \in Parsers :
          /\ p = parser_thread
          /\ handled[p] = 1
          /\ file[p].readable
          /\ emitted[p] = <<ErrorOccurred("ValueError")>>

====
